---- MODULE Spec2Model ----
(***************************************************************************)
(* A model of the regex-to-NFA core (src/src/lib/AutomatonBuilder.ts):     *)
(* explicit concatenation, shunting-yard postfix conversion, Thompson's    *)
(* construction over a stack of fragments, and the NFA simulator with its  *)
(* epsilon closure.  Strings are sequences of one-character strings.       *)
(***************************************************************************)
EXTENDS Integers, Sequences, FiniteSets

VARIABLES
  stateCounter,    \* AutomatonBuilder.stateCounter
  pc,              \* where the builder is: "idle", "build", "raised", "closure0", "loop", "closureN", "returned"
  regex,           \* argument of the running / last buildNFA call
  processedRegex,  \* buildNFA: the result of addExplicitConcatenation
  postfix,         \* result of convertToPostfix inside buildNFA
  pos,             \* buildNFAFromPostfix: index of the next postfix token (1-based)
  automatonStack,  \* buildNFAFromPostfix: the fragment stack (top is the last element)
  automaton,       \* the automaton returned by the last buildNFA call
  input,           \* argument of the running / last testString call
  idx,             \* testString: the loop variable i (0-based, as in the code)
  currentStates,   \* testString: currentStates
  path,            \* testString: path
  visited,         \* getEpsilonClosure: the visited Set, in insertion order
  stack,           \* getEpsilonClosure: the work stack (top is the last element)
  testResult,      \* the TestResult returned by the last testString call
  usedBefore,      \* whether this builder had served a call before the running / last buildNFA call
  regexField,      \* RegexInput: the text of the input field (its `regex` state)
  error            \* RegexInput: its `error` state

vars == <<stateCounter, pc, regex, processedRegex, postfix, pos, automatonStack,
          automaton, input, idx, currentStates, path, visited, stack, testResult,
          usedBefore, regexField, error>>

---------------------------------------------------------------------------
(* Bounds of the model *)

MaxRegexLen == 2
MaxOperandLen == 2
MaxInputLen == 2
MaxBuildLen == 4
MaxFieldLen == 3

---------------------------------------------------------------------------
(* Special characters and symbols *)

\* The source's EPSILON literal is a string of two code units, so it differs
\* from every one-character regex token and every one-character input symbol.
EPSILON == "epsilon"
CONCATENATION == "."
\* UNION in the source; that word is reserved in TLA+.
UNION_SYM == "|"
KLEENE_STAR == "*"

\* The characters the default branch of the two token switches takes as
\* "part of the alphabet": everything that is no operator and no parenthesis.
IsAlphabetSymbol(c) == c \notin {"(", ")", CONCATENATION, UNION_SYM, KLEENE_STAR}

---------------------------------------------------------------------------
(* Ids, states and automata *)

StateId(n) == <<"s", n>>
TransitionId(n) == <<"t_", n>>

\* createState(type) after getNextId() returned n: the label is the upper-cased
\* first letter of the type followed by the digits of the id.
UpperFirst(type) == IF type = "start" THEN "S" ELSE "A"
createState(type, n) ==
  [id |-> StateId(n), label |-> <<UpperFirst(type), n>>,
   isStart |-> FALSE, isAccept |-> FALSE]

WithFlags(s, st, ac) == [s EXCEPT !.isStart = st, !.isAccept = ac]
WithStart(s, st) == [s EXCEPT !.isStart = st]
WithAccept(s, ac) == [s EXCEPT !.isAccept = ac]

\* states.map(s => ({...s, isStart: false, isAccept: false})) and the like
ClearBoth(states) == [k \in 1..Len(states) |-> WithFlags(states[k], FALSE, FALSE)]
ClearAccept(states) == [k \in 1..Len(states) |-> WithAccept(states[k], FALSE)]
ClearStart(states) == [k \in 1..Len(states) |-> WithStart(states[k], FALSE)]

Trans(n, from, to, symbol) ==
  [id |-> TransitionId(n), from |-> from, to |-> to, symbol |-> symbol]

\* acceptStates.map(q => ({id: t_<next id>, from: q, to, symbol: EPSILON})),
\* the ids being counter+1 .. counter+Len(acceptStates)
EpsilonFromEach(acceptStates, to, counter) ==
  [k \in 1..Len(acceptStates) |-> Trans(counter + k, acceptStates[k], to, EPSILON)]

\* The value of the page's `automaton` before any conversion (null).
NullAutomaton ==
  [states |-> <<>>, transitions |-> <<>>, startState |-> StateId(0), acceptStates |-> <<>>]

---------------------------------------------------------------------------
(* addExplicitConcatenation *)

RECURSIVE addExplicitConcatenationFrom(_, _, _)
\* The for loop from index i (1-based here) with `result` built so far.
addExplicitConcatenationFrom(re, i, result) ==
  IF i > Len(re) THEN result
  ELSE LET current == re[i]
           emitted == Append(result, current)
       IN IF i = Len(re) \/ current = "(" \/ current = UNION_SYM
          THEN addExplicitConcatenationFrom(re, i + 1, emitted)
          ELSE LET next == re[i + 1]
               IN IF /\ next # UNION_SYM /\ next # KLEENE_STAR /\ next # ")"
                     /\ current # "(" /\ current # UNION_SYM
                  THEN addExplicitConcatenationFrom(re, i + 1, Append(emitted, CONCATENATION))
                  ELSE addExplicitConcatenationFrom(re, i + 1, emitted)

RECURSIVE addExplicitConcatenationFrom_StarBlind(_, _, _)
\* The loop with the star counted among the characters nothing is added after.
addExplicitConcatenationFrom_StarBlind(re, i, result) ==
  IF i > Len(re) THEN result
  ELSE LET current == re[i]
           emitted == Append(result, current)
       IN IF i = Len(re) \/ current = "(" \/ current = UNION_SYM \/ current = KLEENE_STAR
          THEN addExplicitConcatenationFrom_StarBlind(re, i + 1, emitted)
          ELSE LET next == re[i + 1]
               IN IF next # UNION_SYM /\ next # KLEENE_STAR /\ next # ")"
                  THEN addExplicitConcatenationFrom_StarBlind(re, i + 1,
                                                              Append(emitted, CONCATENATION))
                  ELSE addExplicitConcatenationFrom_StarBlind(re, i + 1, emitted)

addExplicitConcatenation_StarBlind(re) == addExplicitConcatenationFrom_StarBlind(re, 1, <<>>)

addExplicitConcatenation(re) == addExplicitConcatenationFrom(re, 1, <<>>)

---------------------------------------------------------------------------
(* convertToPostfix *)

\* A table that ranks concatenation with union.
precedence_Flat(op) ==
  CASE op = KLEENE_STAR -> 3
    [] op = CONCATENATION -> 1
    [] op = UNION_SYM -> 1
    [] op = "(" -> 0

precedence(op) ==
  CASE op = KLEENE_STAR -> 3
    [] op = CONCATENATION -> 2
    [] op = UNION_SYM -> 1
    [] op = "(" -> 0

Top(seq) == seq[Len(seq)]
Pop(seq) == SubSeq(seq, 1, Len(seq) - 1)

RECURSIVE popUntilParen_Discard(_, _)
\* A loop that pops the operators of the group without emitting them.
popUntilParen_Discard(output, operatorStack) ==
  IF Len(operatorStack) > 0 /\ Top(operatorStack) # "("
  THEN popUntilParen_Discard(output, Pop(operatorStack))
  ELSE [output |-> output, operatorStack |-> operatorStack]

RECURSIVE popUntilParen(_, _)
\* case ')': the while loop; returns the output and the operator stack after it.
popUntilParen(output, operatorStack) ==
  IF Len(operatorStack) > 0 /\ Top(operatorStack) # "("
  THEN popUntilParen(Append(output, Top(operatorStack)), Pop(operatorStack))
  ELSE [output |-> output, operatorStack |-> operatorStack]

RECURSIVE popHigher(_, _, _)
\* case of an operator token: the while loop popping operators that bind at
\* least as tightly as the token.
popHigher(output, operatorStack, token) ==
  IF /\ Len(operatorStack) > 0
     /\ Top(operatorStack) # "("
     /\ precedence(Top(operatorStack)) >= precedence(token)
  THEN popHigher(Append(output, Top(operatorStack)), Pop(operatorStack), token)
  ELSE [output |-> output, operatorStack |-> operatorStack]

RECURSIVE popRemaining(_, _)
\* "Pop remaining operators from the stack"
popRemaining(output, operatorStack) ==
  IF Len(operatorStack) > 0
  THEN popRemaining(Append(output, Top(operatorStack)), Pop(operatorStack))
  ELSE output

\* One iteration of the for loop: the switch on the token.
postfixToken(output, operatorStack, token) ==
  CASE token = "(" ->
         [output |-> output, operatorStack |-> Append(operatorStack, token)]
    [] token = ")" ->
         LET r == popUntilParen(output, operatorStack)
         IN \* operatorStack.pop() discards the parenthesis; on an empty
            \* array pop() returns undefined and changes nothing
            [output |-> r.output,
             operatorStack |-> IF Len(r.operatorStack) > 0
                               THEN Pop(r.operatorStack) ELSE r.operatorStack]
    [] token \in {CONCATENATION, UNION_SYM, KLEENE_STAR} ->
         LET r == popHigher(output, operatorStack, token)
         IN [output |-> r.output, operatorStack |-> Append(r.operatorStack, token)]
    [] OTHER ->
         [output |-> Append(output, token), operatorStack |-> operatorStack]

RECURSIVE convertToPostfixFrom(_, _, _, _)
convertToPostfixFrom(re, i, output, operatorStack) ==
  IF i > Len(re) THEN popRemaining(output, operatorStack)
  ELSE LET r == postfixToken(output, operatorStack, re[i])
       IN convertToPostfixFrom(re, i + 1, r.output, r.operatorStack)

convertToPostfix(re) == convertToPostfixFrom(re, 1, <<>>, <<>>)

---------------------------------------------------------------------------
(* Thompson's construction.  Every operation takes the value of stateCounter
   before it and returns the fragment with the value after it. *)

\* A basic fragment whose transition runs from the accept state to the start state.
createBasicNFA_Reversed(symbol, counter) ==
  LET startState == createState("start", counter + 1)
      acceptState == createState("accept", counter + 2)
  IN [nfa |-> [states |-> << WithFlags(startState, TRUE, FALSE),
                             WithFlags(acceptState, FALSE, TRUE) >>,
               transitions |-> << Trans(counter + 3, acceptState.id, startState.id, symbol) >>,
               startState |-> startState.id,
               acceptStates |-> << acceptState.id >>],
      counter |-> counter + 3]

createBasicNFA(symbol, counter) ==
  LET startState == createState("start", counter + 1)
      acceptState == createState("accept", counter + 2)
  IN [nfa |-> [states |-> << WithFlags(startState, TRUE, FALSE),
                             WithFlags(acceptState, FALSE, TRUE) >>,
               transitions |-> << Trans(counter + 3, startState.id, acceptState.id, symbol) >>,
               startState |-> startState.id,
               acceptStates |-> << acceptState.id >>],
      counter |-> counter + 3]

\* An empty NFA whose single state is not accepting.
createEmptyNFA_NoAccept(counter) ==
  LET startState == createState("start", counter + 1)
  IN [nfa |-> [states |-> << WithFlags(startState, TRUE, FALSE) >>,
               transitions |-> <<>>,
               startState |-> startState.id,
               acceptStates |-> <<>>],
      counter |-> counter + 1]

createEmptyNFA(counter) ==
  LET startState == createState("start", counter + 1)
  IN [nfa |-> [states |-> << WithFlags(startState, TRUE, TRUE) >>,
               transitions |-> <<>>,
               startState |-> startState.id,
               acceptStates |-> << startState.id >>],
      counter |-> counter + 1]

\* A star fragment without the epsilon edge from the new start to the new accept.
applyKleeneStar_NoSkip(a, counter) ==
  LET newStartState == createState("start", counter + 1)
      newAcceptState == createState("accept", counter + 2)
      n == Len(a.acceptStates)
  IN [nfa |-> [states |-> << WithFlags(newStartState, TRUE, FALSE) >>
                          \o ClearBoth(a.states)
                          \o << WithFlags(newAcceptState, FALSE, TRUE) >>,
               transitions |->
                    << Trans(counter + 3, newStartState.id, a.startState, EPSILON) >>
                 \o a.transitions
                 \o EpsilonFromEach(a.acceptStates, a.startState, counter + 3)
                 \o EpsilonFromEach(a.acceptStates, newAcceptState.id, counter + 3 + n),
               startState |-> newStartState.id,
               acceptStates |-> << newAcceptState.id >>],
      counter |-> counter + 3 + 2 * n]

\* A star fragment without the epsilon edges back to the operand's start.
applyKleeneStar_NoRepeat(a, counter) ==
  LET newStartState == createState("start", counter + 1)
      newAcceptState == createState("accept", counter + 2)
      n == Len(a.acceptStates)
  IN [nfa |-> [states |-> << WithFlags(newStartState, TRUE, FALSE) >>
                          \o ClearBoth(a.states)
                          \o << WithFlags(newAcceptState, FALSE, TRUE) >>,
               transitions |->
                    << Trans(counter + 3, newStartState.id, a.startState, EPSILON),
                       Trans(counter + 4, newStartState.id, newAcceptState.id, EPSILON) >>
                 \o a.transitions
                 \o EpsilonFromEach(a.acceptStates, newAcceptState.id, counter + 4),
               startState |-> newStartState.id,
               acceptStates |-> << newAcceptState.id >>],
      counter |-> counter + 4 + n]

\* A star fragment that leaves the flags of the operand's states as they were.
applyKleeneStar_KeepFlags(a, counter) ==
  LET newStartState == createState("start", counter + 1)
      newAcceptState == createState("accept", counter + 2)
      n == Len(a.acceptStates)
  IN [nfa |-> [states |-> << WithFlags(newStartState, TRUE, FALSE) >>
                          \o a.states
                          \o << WithFlags(newAcceptState, FALSE, TRUE) >>,
               transitions |->
                    << Trans(counter + 3, newStartState.id, a.startState, EPSILON),
                       Trans(counter + 4, newStartState.id, newAcceptState.id, EPSILON) >>
                 \o a.transitions
                 \o EpsilonFromEach(a.acceptStates, a.startState, counter + 4)
                 \o EpsilonFromEach(a.acceptStates, newAcceptState.id, counter + 4 + n),
               startState |-> newStartState.id,
               acceptStates |-> << newAcceptState.id >>],
      counter |-> counter + 4 + 2 * n]

\* A star fragment whose new start state is accepting as well.
applyKleeneStar_StartAccepts(a, counter) ==
  LET newStartState == createState("start", counter + 1)
      newAcceptState == createState("accept", counter + 2)
      n == Len(a.acceptStates)
  IN [nfa |-> [states |-> << WithFlags(newStartState, TRUE, TRUE) >>
                          \o ClearBoth(a.states)
                          \o << WithFlags(newAcceptState, FALSE, TRUE) >>,
               transitions |->
                    << Trans(counter + 3, newStartState.id, a.startState, EPSILON),
                       Trans(counter + 4, newStartState.id, newAcceptState.id, EPSILON) >>
                 \o a.transitions
                 \o EpsilonFromEach(a.acceptStates, a.startState, counter + 4)
                 \o EpsilonFromEach(a.acceptStates, newAcceptState.id, counter + 4 + n),
               startState |-> newStartState.id,
               acceptStates |-> << newStartState.id, newAcceptState.id >>],
      counter |-> counter + 4 + 2 * n]

applyKleeneStar(a, counter) ==
  LET newStartState == createState("start", counter + 1)
      newAcceptState == createState("accept", counter + 2)
      n == Len(a.acceptStates)
  IN [nfa |-> [states |-> << WithFlags(newStartState, TRUE, FALSE) >>
                          \o ClearBoth(a.states)
                          \o << WithFlags(newAcceptState, FALSE, TRUE) >>,
               transitions |->
                    << Trans(counter + 3, newStartState.id, a.startState, EPSILON),
                       Trans(counter + 4, newStartState.id, newAcceptState.id, EPSILON) >>
                 \o a.transitions
                 \o EpsilonFromEach(a.acceptStates, a.startState, counter + 4)
                 \o EpsilonFromEach(a.acceptStates, newAcceptState.id, counter + 4 + n),
               startState |-> newStartState.id,
               acceptStates |-> << newAcceptState.id >>],
      counter |-> counter + 4 + 2 * n]

\* A concatenation that takes its operands in the order they are popped.
concatenate_Swapped(left, right, counter) ==
  [nfa |-> [states |-> ClearAccept(right.states) \o ClearStart(left.states),
            transitions |-> right.transitions \o left.transitions
                            \o EpsilonFromEach(right.acceptStates, left.startState, counter),
            startState |-> right.startState,
            acceptStates |-> left.acceptStates],
   counter |-> counter + Len(right.acceptStates)]

\* A concatenation that leaves the accept flags of the left operand's states.
concatenate_KeepFlags(left, right, counter) ==
  [nfa |-> [states |-> left.states \o ClearStart(right.states),
            transitions |-> left.transitions \o right.transitions
                            \o EpsilonFromEach(left.acceptStates, right.startState, counter),
            startState |-> left.startState,
            acceptStates |-> right.acceptStates],
   counter |-> counter + Len(left.acceptStates)]

\* A concatenation that numbers its transitions without advancing the counter.
concatenate_NoAdvance(left, right, counter) ==
  [nfa |-> [states |-> ClearAccept(left.states) \o ClearStart(right.states),
            transitions |-> left.transitions \o right.transitions
                            \o EpsilonFromEach(left.acceptStates, right.startState, counter),
            startState |-> left.startState,
            acceptStates |-> right.acceptStates],
   counter |-> counter]

\* A concatenation that leaves the start flag on the right operand's states.
concatenate_KeepStart(left, right, counter) ==
  [nfa |-> [states |-> ClearAccept(left.states) \o right.states,
            transitions |-> left.transitions \o right.transitions
                            \o EpsilonFromEach(left.acceptStates, right.startState, counter),
            startState |-> left.startState,
            acceptStates |-> right.acceptStates],
   counter |-> counter + Len(left.acceptStates)]

\* A concatenation that joins the two state lists without linking them.
concatenate_NoEpsilon(left, right, counter) ==
  [nfa |-> [states |-> ClearAccept(left.states) \o ClearStart(right.states),
            transitions |-> left.transitions \o right.transitions,
            startState |-> left.startState,
            acceptStates |-> right.acceptStates],
   counter |-> counter]

\* A concatenation that leaves out the first state of the right operand.
concatenate_DropRightFirst(left, right, counter) ==
  [nfa |-> [states |-> ClearAccept(left.states) \o Tail(ClearStart(right.states)),
            transitions |-> left.transitions \o right.transitions
                            \o EpsilonFromEach(left.acceptStates, right.startState, counter),
            startState |-> left.startState,
            acceptStates |-> right.acceptStates],
   counter |-> counter + Len(left.acceptStates)]

concatenate(left, right, counter) ==
  [nfa |-> [states |-> ClearAccept(left.states) \o ClearStart(right.states),
            transitions |-> left.transitions \o right.transitions
                            \o EpsilonFromEach(left.acceptStates, right.startState, counter),
            startState |-> left.startState,
            acceptStates |-> right.acceptStates],
   counter |-> counter + Len(left.acceptStates)]

\* A union without the epsilon edge from the new start to the right operand.
union_NoRightBranch(left, right, counter) ==
  LET newStartState == createState("start", counter + 1)
      newAcceptState == createState("accept", counter + 2)
      n == Len(left.acceptStates)
  IN [nfa |-> [states |-> << WithFlags(newStartState, TRUE, FALSE) >>
                          \o ClearBoth(left.states)
                          \o ClearBoth(right.states)
                          \o << WithFlags(newAcceptState, FALSE, TRUE) >>,
               transitions |->
                    << Trans(counter + 3, newStartState.id, left.startState, EPSILON) >>
                 \o left.transitions
                 \o right.transitions
                 \o EpsilonFromEach(left.acceptStates, newAcceptState.id, counter + 3)
                 \o EpsilonFromEach(right.acceptStates, newAcceptState.id, counter + 3 + n),
               startState |-> newStartState.id,
               acceptStates |-> << newAcceptState.id >>],
      counter |-> counter + 3 + n + Len(right.acceptStates)]

\* A union that leaves out the states of the right operand.
union_DropRightStates(left, right, counter) ==
  LET newStartState == createState("start", counter + 1)
      newAcceptState == createState("accept", counter + 2)
      n == Len(left.acceptStates)
  IN [nfa |-> [states |-> << WithFlags(newStartState, TRUE, FALSE) >>
                          \o ClearBoth(left.states)
                          \o << WithFlags(newAcceptState, FALSE, TRUE) >>,
               transitions |->
                    << Trans(counter + 3, newStartState.id, left.startState, EPSILON),
                       Trans(counter + 4, newStartState.id, right.startState, EPSILON) >>
                 \o left.transitions
                 \o right.transitions
                 \o EpsilonFromEach(left.acceptStates, newAcceptState.id, counter + 4)
                 \o EpsilonFromEach(right.acceptStates, newAcceptState.id, counter + 4 + n),
               startState |-> newStartState.id,
               acceptStates |-> << newAcceptState.id >>],
      counter |-> counter + 4 + n + Len(right.acceptStates)]

\* A union that leaves the flags of the operands' states as they were.
union_KeepFlags(left, right, counter) ==
  LET newStartState == createState("start", counter + 1)
      newAcceptState == createState("accept", counter + 2)
      n == Len(left.acceptStates)
  IN [nfa |-> [states |-> << WithFlags(newStartState, TRUE, FALSE) >>
                          \o left.states
                          \o right.states
                          \o << WithFlags(newAcceptState, FALSE, TRUE) >>,
               transitions |->
                    << Trans(counter + 3, newStartState.id, left.startState, EPSILON),
                       Trans(counter + 4, newStartState.id, right.startState, EPSILON) >>
                 \o left.transitions
                 \o right.transitions
                 \o EpsilonFromEach(left.acceptStates, newAcceptState.id, counter + 4)
                 \o EpsilonFromEach(right.acceptStates, newAcceptState.id, counter + 4 + n),
               startState |-> newStartState.id,
               acceptStates |-> << newAcceptState.id >>],
      counter |-> counter + 4 + n + Len(right.acceptStates)]

union(left, right, counter) ==
  LET newStartState == createState("start", counter + 1)
      newAcceptState == createState("accept", counter + 2)
      n == Len(left.acceptStates)
  IN [nfa |-> [states |-> << WithFlags(newStartState, TRUE, FALSE) >>
                          \o ClearBoth(left.states)
                          \o ClearBoth(right.states)
                          \o << WithFlags(newAcceptState, FALSE, TRUE) >>,
               transitions |->
                    << Trans(counter + 3, newStartState.id, left.startState, EPSILON),
                       Trans(counter + 4, newStartState.id, right.startState, EPSILON) >>
                 \o left.transitions
                 \o right.transitions
                 \o EpsilonFromEach(left.acceptStates, newAcceptState.id, counter + 4)
                 \o EpsilonFromEach(right.acceptStates, newAcceptState.id, counter + 4 + n),
               startState |-> newStartState.id,
               acceptStates |-> << newAcceptState.id >>],
      counter |-> counter + 4 + n + Len(right.acceptStates)]

\* The switch with a concatenation that pops its right operand before it
\* looks whether there is a left one.
fragmentToken_ConcatPopsFirst(fs, counter, token) ==
  CASE token = KLEENE_STAR ->
         IF Len(fs) > 0
         THEN LET r == applyKleeneStar(Top(fs), counter)
              IN [automatonStack |-> Append(Pop(fs), r.nfa), counter |-> r.counter,
                  raised |-> FALSE]
         ELSE [automatonStack |-> fs, counter |-> counter, raised |-> FALSE]
    [] token = CONCATENATION ->
         IF Len(fs) >= 2
         THEN LET right == Top(fs)
                  left == Top(Pop(fs))
                  r == concatenate(left, right, counter)
              IN [automatonStack |-> Append(Pop(Pop(fs)), r.nfa), counter |-> r.counter,
                  raised |-> FALSE]
         ELSE [automatonStack |-> IF Len(fs) > 0 THEN Pop(fs) ELSE fs,
               counter |-> counter, raised |-> FALSE]
    [] token = UNION_SYM ->
         IF Len(fs) >= 2
         THEN LET right == Top(fs)
                  left == Top(Pop(fs))
                  r == union(left, right, counter)
              IN [automatonStack |-> Append(Pop(Pop(fs)), r.nfa), counter |-> r.counter,
                  raised |-> FALSE]
         ELSE [automatonStack |-> fs, counter |-> counter, raised |-> FALSE]
    [] OTHER ->
         LET r == createBasicNFA(token, counter)
         IN [automatonStack |-> Append(fs, r.nfa), counter |-> r.counter, raised |-> FALSE]

\* The switch without the length check of the star case: on an empty stack
\* pop() gives undefined, applyKleeneStar creates its two states and then
\* reads a property of undefined.
fragmentToken_Unguarded(fs, counter, token) ==
  CASE token = KLEENE_STAR ->
         IF Len(fs) > 0
         THEN LET r == applyKleeneStar(Top(fs), counter)
              IN [automatonStack |-> Append(Pop(fs), r.nfa), counter |-> r.counter,
                  raised |-> FALSE]
         ELSE [automatonStack |-> fs, counter |-> counter + 2, raised |-> TRUE]
    [] token = CONCATENATION ->
         IF Len(fs) >= 2
         THEN LET right == Top(fs)
                  left == Top(Pop(fs))
                  r == concatenate(left, right, counter)
              IN [automatonStack |-> Append(Pop(Pop(fs)), r.nfa), counter |-> r.counter,
                  raised |-> FALSE]
         ELSE [automatonStack |-> fs, counter |-> counter, raised |-> FALSE]
    [] token = UNION_SYM ->
         IF Len(fs) >= 2
         THEN LET right == Top(fs)
                  left == Top(Pop(fs))
                  r == union(left, right, counter)
              IN [automatonStack |-> Append(Pop(Pop(fs)), r.nfa), counter |-> r.counter,
                  raised |-> FALSE]
         ELSE [automatonStack |-> fs, counter |-> counter, raised |-> FALSE]
    [] OTHER ->
         LET r == createBasicNFA(token, counter)
         IN [automatonStack |-> Append(fs, r.nfa), counter |-> r.counter, raised |-> FALSE]

\* One iteration of the for loop of buildNFAFromPostfix: the switch on the
\* token, on the fragment stack `fs` and the counter.  `raised` tells whether
\* the iteration ends in a TypeError; every pop() is behind a length check, so
\* no operand is undefined and none of the branches raises.
fragmentToken(fs, counter, token) ==
  CASE token = KLEENE_STAR ->
         IF Len(fs) > 0
         THEN LET r == applyKleeneStar(Top(fs), counter)
              IN [automatonStack |-> Append(Pop(fs), r.nfa), counter |-> r.counter,
                  raised |-> FALSE]
         ELSE [automatonStack |-> fs, counter |-> counter, raised |-> FALSE]
    [] token = CONCATENATION ->
         IF Len(fs) >= 2
         THEN LET right == Top(fs)
                  left == Top(Pop(fs))
                  r == concatenate(left, right, counter)
              IN [automatonStack |-> Append(Pop(Pop(fs)), r.nfa), counter |-> r.counter,
                  raised |-> FALSE]
         ELSE [automatonStack |-> fs, counter |-> counter, raised |-> FALSE]
    [] token = UNION_SYM ->
         IF Len(fs) >= 2
         THEN LET right == Top(fs)
                  left == Top(Pop(fs))
                  r == union(left, right, counter)
              IN [automatonStack |-> Append(Pop(Pop(fs)), r.nfa), counter |-> r.counter,
                  raised |-> FALSE]
         ELSE [automatonStack |-> fs, counter |-> counter, raised |-> FALSE]
    [] OTHER ->
         LET r == createBasicNFA(token, counter)
         IN [automatonStack |-> Append(fs, r.nfa), counter |-> r.counter, raised |-> FALSE]

\* "Return the final automaton": the bottom of the stack, or the empty NFA.
finalAutomaton(fs, counter) ==
  IF Len(fs) > 0 THEN [nfa |-> fs[1], counter |-> counter] ELSE createEmptyNFA(counter)

RECURSIVE buildNFAFromPostfixFrom(_, _, _, _)
buildNFAFromPostfixFrom(pf, i, fs, counter) ==
  IF i > Len(pf) THEN finalAutomaton(fs, counter)
  ELSE LET r == fragmentToken(fs, counter, pf[i])
       IN buildNFAFromPostfixFrom(pf, i + 1, r.automatonStack, r.counter)

buildNFAFromPostfix(pf, counter) == buildNFAFromPostfixFrom(pf, 1, <<>>, counter)

\* buildNFA as a function of the regex: the counter is reset, so the result
\* does not depend on the builder's state.
buildNFA(re) == buildNFAFromPostfix(convertToPostfix(addExplicitConcatenation(re)), 0).nfa

---------------------------------------------------------------------------
(* The simulator.  A JavaScript Set keeps insertion order, so a Set is a
   sequence without repetitions here. *)

Contains(seq, x) == \E k \in 1..Len(seq) : seq[k] = x

\* Set.add
SetAdd(seq, x) == IF Contains(seq, x) THEN seq ELSE Append(seq, x)

RECURSIVE SetFromArray(_, _, _)
\* new Set(array), continued from index i with `acc` built so far
SetFromArray(array, i, acc) ==
  IF i > Len(array) THEN acc ELSE SetFromArray(array, i + 1, SetAdd(acc, array[i]))

RECURSIVE transitionsOnFrom(_, _, _, _)
\* the filter below, continued from index i of the transitions
transitionsOnFrom(ts, state, symbol, i) ==
  IF i > Len(ts) THEN <<>>
  ELSE IF ts[i].from = state /\ ts[i].symbol = symbol
       THEN <<ts[i]>> \o transitionsOnFrom(ts, state, symbol, i + 1)
       ELSE transitionsOnFrom(ts, state, symbol, i + 1)

\* automaton.transitions.filter(t => t.from === state && t.symbol === symbol)
transitionsOn(a, state, symbol) == transitionsOnFrom(a.transitions, state, symbol, 1)

RECURSIVE expandEpsilon(_, _, _, _)
\* getEpsilonClosure: the for loop over epsilonTransitions of the popped state
expandEpsilon(ts, i, vis, stk) ==
  IF i > Len(ts) THEN [visited |-> vis, stack |-> stk]
  ELSE IF ~Contains(vis, ts[i].to)
       THEN expandEpsilon(ts, i + 1, Append(vis, ts[i].to), Append(stk, ts[i].to))
       ELSE expandEpsilon(ts, i + 1, vis, stk)

RECURSIVE transitionsFromAny(_, _, _)
\* a filter on t.from alone
transitionsFromAny(ts, state, i) ==
  IF i > Len(ts) THEN <<>>
  ELSE IF ts[i].from = state
       THEN <<ts[i]>> \o transitionsFromAny(ts, state, i + 1)
       ELSE transitionsFromAny(ts, state, i + 1)

\* A loop body that follows every transition of the popped state, whatever
\* its symbol.
closureStep_AnySymbol(vis, stk, a) ==
  expandEpsilon(transitionsFromAny(a.transitions, Top(stk), 1), 1, vis, Pop(stk))

\* A loop body that reads the top of the stack and leaves it there.
closureStep_NoPop(vis, stk, a) ==
  expandEpsilon(transitionsOn(a, Top(stk), EPSILON), 1, vis, stk)

\* getEpsilonClosure: one iteration of the while loop (stack is not empty)
closureStep(vis, stk, a) ==
  expandEpsilon(transitionsOn(a, Top(stk), EPSILON), 1, vis, Pop(stk))

\* getEpsilonClosure: visited and stack before the while loop
closureStart(states) == [visited |-> SetFromArray(states, 1, <<>>), stack |-> states]

RECURSIVE closureLoop(_, _, _)
closureLoop(vis, stk, a) ==
  IF Len(stk) > 0
  THEN LET r == closureStep(vis, stk, a) IN closureLoop(r.visited, r.stack, a)
  ELSE vis

getEpsilonClosure(states, a) ==
  LET s0 == closureStart(states) IN closureLoop(s0.visited, s0.stack, a)

RECURSIVE addTargets(_, _, _)
\* getNextStates: the inner for loop, nextStates.add(transition.to)
addTargets(ts, i, nextStates) ==
  IF i > Len(ts) THEN nextStates
  ELSE addTargets(ts, i + 1, SetAdd(nextStates, ts[i].to))

RECURSIVE symbolTargets(_, _, _, _, _)
\* getNextStates: the outer for loop over currentStates
symbolTargets(cur, symbol, a, i, nextStates) ==
  IF i > Len(cur) THEN nextStates
  ELSE symbolTargets(cur, symbol, a, i + 1,
                     addTargets(transitionsOn(a, cur[i], symbol), 1, nextStates))

getNextStates(cur, symbol, a) ==
  getEpsilonClosure(symbolTargets(cur, symbol, a, 1, <<>>), a)

\* every in place of some
someAccepting_Every(cur, a) == \A k \in 1..Len(cur) : Contains(a.acceptStates, cur[k])

\* currentStates.some(state => automaton.acceptStates.includes(state))
someAccepting(cur, a) == \E k \in 1..Len(cur) : Contains(a.acceptStates, cur[k])

RECURSIVE testStringFrom(_, _, _, _, _)
\* testString: the for loop from index i (0-based), then the final check
testStringFrom(a, inp, i, cur, pth) ==
  IF i < Len(inp)
  THEN LET nextStates == getNextStates(cur, inp[i + 1], a)
       IN IF Len(nextStates) = 0
          THEN [accepted |-> FALSE, path |-> pth]
          ELSE testStringFrom(a, inp, i + 1, nextStates, pth \o nextStates)
  ELSE [accepted |-> someAccepting(cur, a), path |-> pth]

testString(a, inp) ==
  LET cur == getEpsilonClosure(<<a.startState>>, a)
  IN testStringFrom(a, inp, 0, cur, cur)

---------------------------------------------------------------------------
(* Regex syntax: the grammar the construction is meant for.
     r ::= c | r r | r "|" r | r "*" | "(" r ")"      c an alphabet symbol
   with star binding tighter than concatenation, concatenation tighter than
   union. *)

RECURSIVE DepthBefore(_, _)
\* number of parentheses open just before position i
DepthBefore(re, i) ==
  IF i <= 1 THEN 0
  ELSE LET d == DepthBefore(re, i - 1)
       IN IF re[i - 1] = "(" THEN d + 1
          ELSE IF re[i - 1] = ")" /\ d > 0 THEN d - 1 ELSE d

TopLevelUnions(re) ==
  {k \in 1..Len(re) : re[k] = UNION_SYM /\ DepthBefore(re, k) = 0}

Min(S) == CHOOSE x \in S : \A y \in S : x <= y
Max(S) == CHOOSE x \in S : \A y \in S : x >= y

RECURSIVE StripStars(_)
StripStars(re) ==
  IF Len(re) > 0 /\ Top(re) = KLEENE_STAR THEN StripStars(Pop(re)) ELSE re

\* Where the last factor (an atom and the stars after it) of a union-free
\* expression begins; 0 when there is none.
LastFactorStart(re) ==
  LET core == StripStars(re)
      n == Len(core)
  IN IF n = 0 THEN 0
     ELSE IF core[n] = ")"
          THEN LET opens == {k \in 1..n : core[k] = "(" /\ DepthBefore(core, k) = 0}
               IN IF opens = {} THEN 0 ELSE Max(opens)
          ELSE IF IsAlphabetSymbol(core[n]) THEN n ELSE 0

RECURSIVE WellFormed(_)
WellFormed(re) ==
  LET n == Len(re)
      us == TopLevelUnions(re)
      k == LastFactorStart(re)
  IN IF n = 0 THEN FALSE
     ELSE IF us # {}
          THEN /\ WellFormed(SubSeq(re, 1, Min(us) - 1))
               /\ WellFormed(SubSeq(re, Min(us) + 1, n))
          ELSE IF k = 0 THEN FALSE
          ELSE IF k > 1
               THEN WellFormed(SubSeq(re, 1, k - 1)) /\ WellFormed(SubSeq(re, k, n))
          ELSE IF re[n] = KLEENE_STAR THEN WellFormed(Pop(re))
          ELSE IF re[1] = "(" /\ re[n] = ")" THEN WellFormed(SubSeq(re, 2, n - 1))
          ELSE n = 1 /\ IsAlphabetSymbol(re[1])

RECURSIVE InLanguage(_, _)
\* Whether string w belongs to the language of the well-formed regex re, by
\* the denotation of its syntax (no automaton involved).
InLanguage(re, w) ==
  LET n == Len(re)
      m == Len(w)
      us == TopLevelUnions(re)
      k == LastFactorStart(re)
  IN IF us # {}
     THEN \/ InLanguage(SubSeq(re, 1, Min(us) - 1), w)
          \/ InLanguage(SubSeq(re, Min(us) + 1, n), w)
     ELSE IF k > 1
          THEN \E j \in 0..m : /\ InLanguage(SubSeq(re, 1, k - 1), SubSeq(w, 1, j))
                               /\ InLanguage(SubSeq(re, k, n), SubSeq(w, j + 1, m))
     ELSE IF re[n] = KLEENE_STAR
          THEN \/ m = 0
               \/ \E j \in 1..m : /\ InLanguage(Pop(re), SubSeq(w, 1, j))
                                  /\ InLanguage(re, SubSeq(w, j + 1, m))
     ELSE IF re[1] = "(" THEN InLanguage(SubSeq(re, 2, n - 1), w)
     ELSE w = re

---------------------------------------------------------------------------
(* The inputs of the model *)

StringsUpTo(S, n) == UNION {[1..k -> S] : k \in 0..n}

RegexChars == {"a", "b", "(", ")", "|", "*", "."}
InputChars == {"a", "b"}

\* How a caller writes "r1 followed by r2", "r1 or r2" and "r repeated".
Group(re) == IF Len(re) = 1 THEN re ELSE <<"(">> \o re \o <<")">>
ConcatOf(r1, r2) == Group(r1) \o Group(r2)
UnionOf(r1, r2) == r1 \o <<UNION_SYM>> \o r2
StarOf(re) == Group(re) \o <<KLEENE_STAR>>

Operands == {re \in StringsUpTo(RegexChars, MaxOperandLen) : WellFormed(re)}

ComposedRegexes ==
  {ConcatOf(r1, r2) : r1 \in Operands, r2 \in Operands}
  \cup {UnionOf(r1, r2) : r1 \in Operands, r2 \in Operands}
  \cup {StarOf(re) : re \in Operands}

\* The regexes and inputs of the specification's concrete scenarios.
ScenarioRegexes ==
  { <<"a", "*", "b">>,
    <<"(", "a", "b", ")", "*">>,
    <<"(", "a", "*", ")", "*">>,
    <<"(", "a", "|", "b", ")", "*">>,
    <<"(", "a", "|", "b", ")", "*", "a", "b", "b">> }

ScenarioInputs ==
  { <<"a", "c">>, <<"x">>, <<"a", "b", "a">>, <<"a", "a", "b">>, <<"a", "a", "b", "b">>,
    <<"a", "b", "a", "b">>, <<"a", "b", "a", "b", "a", "b">> }

\* Expressions whose postfix form depends on precedence and associativity.
PrecedenceRegexes ==
  { <<"a", "|", "b", "|", "a">>,
    <<"a", "b", "|", "b", "a", "*">>,
    <<"a", "|", "b", "a", "*", "|", "b">>,
    <<"(", "a", "|", "b", ")", "(", "b", "|", "a", "*", ")", "*">> }

BuildInputs ==
  StringsUpTo(RegexChars, MaxBuildLen) \cup ComposedRegexes \cup ScenarioRegexes
  \cup PrecedenceRegexes

\* What the input field can hold: a symbol, the parentheses and white space.
FieldChars == {"a", "(", ")", " "}
\* The texts one keystroke away: a character typed at the end, or the last
\* character deleted.
Keystrokes(text) ==
  {Append(text, c) : c \in IF Len(text) < MaxFieldLen THEN FieldChars ELSE {}}
  \cup (IF Len(text) > 0 THEN {Pop(text)} ELSE {})

\* The regexes whose automata serve as operands of a single concatenation;
\* the empty regex gives the empty-string automaton.
ConcatOperandRegexes == Operands \cup {<<>>}

RegexInputs == StringsUpTo(RegexChars, MaxRegexLen) \cup ComposedRegexes \cup ScenarioRegexes
\* buildNFA resets the counter and starts from empty stacks, so what it builds
\* does not depend on the automaton built before; a builder that has already
\* built one is asked for these few again.
RebuildInputs == StringsUpTo(RegexChars, 1) \cup ScenarioRegexes
TestInputs == StringsUpTo(InputChars, MaxInputLen) \cup ScenarioInputs
\* The strings handed to the page's test handler: the handler treats every
\* string alike, so a few with different outcomes stand for all.
PageTestInputs == StringsUpTo(InputChars, 1) \cup { <<"a", "a">> }

---------------------------------------------------------------------------
(* The builder as a state machine *)

\* No TestResult yet (a returned path always holds the start state).
NoResult == [accepted |-> FALSE, path |-> <<>>]

\* RegexInput's error state when no message is shown (the empty string).
NoError == ""

Init ==
  /\ stateCounter = 0
  /\ pc = "idle"
  /\ regex = <<>>
  /\ processedRegex = <<>>
  /\ postfix = <<>>
  /\ pos = 1
  /\ automatonStack = <<>>
  /\ automaton = NullAutomaton
  /\ input = <<>>
  /\ idx = 0
  /\ currentStates = <<>>
  /\ path = <<>>
  /\ visited = <<>>
  /\ stack = <<>>
  /\ testResult = NoResult
  /\ usedBefore = FALSE
  /\ regexField = <<>>
  /\ error = NoError

testVars == <<input, idx, currentStates, path, visited, stack, testResult>>
buildVars == <<stateCounter, regex, processedRegex, postfix, pos, automatonStack,
               automaton, usedBefore>>
inputVars == <<regexField, error>>

\* A buildNFA that goes on counting where the previous call stopped.
BuildNFA_NoReset(re) ==
  /\ pc = "idle"
  /\ stateCounter' = stateCounter
  /\ regex' = re
  /\ processedRegex' = addExplicitConcatenation(re)
  /\ postfix' = convertToPostfix(addExplicitConcatenation(re))
  /\ usedBefore' = (automaton # NullAutomaton)
  /\ pos' = 1
  /\ automatonStack' = <<>>
  /\ automaton' = NullAutomaton
  /\ pc' = "build"
  /\ UNCHANGED testVars
  /\ UNCHANGED inputVars

\* buildNFA(re) up to the call of buildNFAFromPostfix and the start of its loop.
BuildNFA(re) ==
  /\ pc = "idle"
  /\ stateCounter' = 0
  /\ regex' = re
  /\ processedRegex' = addExplicitConcatenation(re)
  /\ postfix' = convertToPostfix(addExplicitConcatenation(re))
  /\ usedBefore' = (automaton # NullAutomaton)
  /\ pos' = 1
  /\ automatonStack' = <<>>
  /\ automaton' = NullAutomaton
  /\ pc' = "build"
  /\ UNCHANGED testVars
  /\ UNCHANGED inputVars

\* One iteration of the loop of buildNFAFromPostfix on a token of the given kind.
TokenStep ==
  LET r == fragmentToken(automatonStack, stateCounter, postfix[pos])
  IN /\ automatonStack' = r.automatonStack
     /\ stateCounter' = r.counter
     /\ pc' = IF r.raised THEN "raised" ELSE pc
     /\ pos' = pos + 1
     /\ UNCHANGED <<regex, processedRegex, postfix, automaton, usedBefore>>
     /\ UNCHANGED testVars
     /\ UNCHANGED inputVars

AtToken == pc = "build" /\ pos <= Len(postfix)

TokenKleeneStar == AtToken /\ postfix[pos] = KLEENE_STAR /\ TokenStep
TokenConcatenation == AtToken /\ postfix[pos] = CONCATENATION /\ TokenStep
TokenUnion == AtToken /\ postfix[pos] = UNION_SYM /\ TokenStep
TokenSymbol ==
  /\ AtToken
  /\ postfix[pos] \notin {KLEENE_STAR, CONCATENATION, UNION_SYM}
  /\ TokenStep

\* The return of buildNFAFromPostfix and of buildNFA.
BuildReturn ==
  /\ pc = "build"
  /\ pos > Len(postfix)
  /\ LET r == finalAutomaton(automatonStack, stateCounter)
     IN automaton' = r.nfa /\ stateCounter' = r.counter
  /\ automatonStack' = <<>>
  /\ pc' = "idle"
  /\ UNCHANGED <<regex, processedRegex, postfix, pos, usedBefore>>
  /\ UNCHANGED testVars
  /\ UNCHANGED inputVars

\* testString(automaton, inp) up to its first getEpsilonClosure call.
TestString(inp) ==
  /\ pc = "idle"
  /\ automaton # NullAutomaton
  /\ input' = inp
  /\ idx' = 0
  /\ LET c == closureStart(<<automaton.startState>>)
     IN visited' = c.visited /\ stack' = c.stack
  /\ currentStates' = <<>>
  /\ path' = <<>>
  /\ testResult' = NoResult
  /\ pc' = "closure0"
  /\ UNCHANGED buildVars
  /\ UNCHANGED inputVars

\* getEpsilonClosure: one iteration of its while loop.
ClosureStep ==
  /\ pc \in {"closure0", "closureN"}
  /\ Len(stack) > 0
  /\ LET r == closureStep(visited, stack, automaton)
     IN visited' = r.visited /\ stack' = r.stack
  /\ UNCHANGED <<pc, input, idx, currentStates, path, testResult>>
  /\ UNCHANGED buildVars
  /\ UNCHANGED inputVars

\* The first closure returns: currentStates and path are initialised.
StartClosureReturn ==
  /\ pc = "closure0"
  /\ Len(stack) = 0
  /\ currentStates' = visited
  /\ path' = visited
  /\ pc' = "loop"
  /\ UNCHANGED <<input, idx, visited, stack, testResult>>
  /\ UNCHANGED buildVars
  /\ UNCHANGED inputVars

\* The loop body up to the getEpsilonClosure call inside getNextStates.
NextSymbol ==
  /\ pc = "loop"
  /\ idx < Len(input)
  /\ LET c == closureStart(symbolTargets(currentStates, input[idx + 1], automaton, 1, <<>>))
     IN visited' = c.visited /\ stack' = c.stack
  /\ pc' = "closureN"
  /\ UNCHANGED <<input, idx, currentStates, path, testResult>>
  /\ UNCHANGED buildVars
  /\ UNCHANGED inputVars

\* A dead end that skips the symbol and goes on with the next one.
DeadEnd_Continues ==
  /\ pc = "closureN"
  /\ Len(stack) = 0
  /\ Len(visited) = 0
  /\ idx' = idx + 1
  /\ pc' = "loop"
  /\ UNCHANGED <<input, currentStates, path, visited, stack, testResult>>
  /\ UNCHANGED buildVars
  /\ UNCHANGED inputVars

\* A dead end that returns without the path.
DeadEnd_EmptyPath ==
  /\ pc = "closureN"
  /\ Len(stack) = 0
  /\ Len(visited) = 0
  /\ testResult' = [accepted |-> FALSE, path |-> <<>>]
  /\ pc' = "returned"
  /\ UNCHANGED <<input, idx, currentStates, path, visited, stack>>
  /\ UNCHANGED buildVars
  /\ UNCHANGED inputVars

\* getNextStates returned no state: testString returns.
DeadEnd ==
  /\ pc = "closureN"
  /\ Len(stack) = 0
  /\ Len(visited) = 0
  /\ testResult' = [accepted |-> FALSE, path |-> path]
  /\ pc' = "returned"
  /\ UNCHANGED <<input, idx, currentStates, path, visited, stack>>
  /\ UNCHANGED buildVars
  /\ UNCHANGED inputVars

RECURSIVE withoutSeen(_, _)
\* the states of seq that seen does not hold
withoutSeen(seq, seen) ==
  IF Len(seq) = 0 THEN <<>>
  ELSE IF Contains(seen, seq[1]) THEN withoutSeen(Tail(seq), seen)
       ELSE <<seq[1]>> \o withoutSeen(Tail(seq), seen)

\* An update that appends to the path only the states it does not hold yet.
Advance_Dedup ==
  /\ pc = "closureN"
  /\ Len(stack) = 0
  /\ Len(visited) > 0
  /\ currentStates' = visited
  /\ path' = path \o withoutSeen(visited, path)
  /\ idx' = idx + 1
  /\ pc' = "loop"
  /\ UNCHANGED <<input, visited, stack, testResult>>
  /\ UNCHANGED buildVars
  /\ UNCHANGED inputVars

\* getNextStates returned states: "Update current states and path", i++.
Advance ==
  /\ pc = "closureN"
  /\ Len(stack) = 0
  /\ Len(visited) > 0
  /\ currentStates' = visited
  /\ path' = path \o visited
  /\ idx' = idx + 1
  /\ pc' = "loop"
  /\ UNCHANGED <<input, visited, stack, testResult>>
  /\ UNCHANGED buildVars
  /\ UNCHANGED inputVars

\* The loop is over: the final check and the return.
TestReturn ==
  /\ pc = "loop"
  /\ idx >= Len(input)
  /\ testResult' = [accepted |-> someAccepting(currentStates, automaton), path |-> path]
  /\ pc' = "returned"
  /\ UNCHANGED <<input, idx, currentStates, path, visited, stack>>
  /\ UNCHANGED buildVars
  /\ UNCHANGED inputVars

\* The caller has taken the TestResult: the call's frame is gone.
TestStringDone ==
  /\ pc = "returned"
  /\ pc' = "idle"
  /\ input' = <<>> /\ idx' = 0 /\ currentStates' = <<>> /\ path' = <<>>
  /\ visited' = <<>> /\ stack' = <<>> /\ testResult' = NoResult
  /\ UNCHANGED buildVars
  /\ UNCHANGED inputVars

Next ==
  \/ \E re \in (IF automaton = NullAutomaton THEN RegexInputs ELSE RebuildInputs) :
        BuildNFA(re)
  \/ TokenKleeneStar
  \/ TokenConcatenation
  \/ TokenUnion
  \/ TokenSymbol
  \/ BuildReturn
  \/ \E inp \in TestInputs : TestString(inp)
  \/ ClosureStep
  \/ StartClosureReturn
  \/ NextSymbol
  \/ DeadEnd
  \/ Advance
  \/ TestReturn
  \/ TestStringDone

Spec == Init /\ [][Next]_vars

\* A call of testString that has started keeps running: the code is
\* synchronous and single-threaded.
TestRun ==
  ClosureStep \/ StartClosureReturn \/ NextSymbol \/ DeadEnd \/ Advance \/ TestReturn

LiveSpec == Spec /\ WF_vars(TestRun)

\* A fresh builder serving one buildNFA call, on every short string.
BuildNext ==
  \/ (pc = "idle" /\ automaton = NullAutomaton /\ \E re \in BuildInputs : BuildNFA(re))
  \/ TokenKleeneStar
  \/ TokenConcatenation
  \/ TokenUnion
  \/ TokenSymbol
  \/ BuildReturn

BuildSpec == Init /\ [][BuildNext]_vars

\* buildNFAFromPostfix about to apply the concatenation token to two
\* fragments, the right one numbered after the left one.  The operands are
\* automata the builder produces, the empty-string automaton among them;
\* buildNFA itself never leaves that one on the stack.
ConcatInit ==
  /\ \E ra \in ConcatOperandRegexes : \E rb \in ConcatOperandRegexes :
       LET a == buildNFAFromPostfix(convertToPostfix(addExplicitConcatenation(ra)), 0)
           b == buildNFAFromPostfix(convertToPostfix(addExplicitConcatenation(rb)), a.counter)
       IN /\ automatonStack = <<a.nfa, b.nfa>>
          /\ stateCounter = b.counter
  /\ pc = "build"
  /\ postfix = <<CONCATENATION>>
  /\ pos = 1
  /\ regex = <<>>
  /\ processedRegex = <<>>
  /\ automaton = NullAutomaton
  /\ input = <<>>
  /\ idx = 0
  /\ currentStates = <<>>
  /\ path = <<>>
  /\ visited = <<>>
  /\ stack = <<>>
  /\ testResult = NoResult
  /\ usedBefore = FALSE
  /\ regexField = <<>>
  /\ error = NoError

ConcatNext ==
  \/ TokenConcatenation
  \/ BuildReturn

ConcatSpec == ConcatInit /\ [][ConcatNext]_vars

---------------------------------------------------------------------------
(* The page: the input-collecting component RegexInput in front of Index,
   which builds with a new AutomatonBuilder on every render (so the builder's
   own variables stay as constructed). *)

RECURSIVE trimStart(_)
trimStart(text) ==
  IF Len(text) > 0 /\ Head(text) = " " THEN trimStart(Tail(text)) ELSE text
RECURSIVE trimEnd(_)
trimEnd(text) ==
  IF Len(text) > 0 /\ Top(text) = " " THEN trimEnd(Pop(text)) ELSE text
\* String.prototype.trim, white space being the blank
trim(text) == trimEnd(trimStart(text))

RECURSIVE parenthesisScan_NoEarlyReturn(_, _, _)
\* A scan without the check inside the loop: only the final count is looked at.
parenthesisScan_NoEarlyReturn(text, i, parenthesisCount) ==
  IF i > Len(text) THEN parenthesisCount = 0
  ELSE LET count == IF text[i] = "(" THEN parenthesisCount + 1
                    ELSE IF text[i] = ")" THEN parenthesisCount - 1
                    ELSE parenthesisCount
       IN parenthesisScan_NoEarlyReturn(text, i + 1, count)

RECURSIVE parenthesisScan(_, _, _)
\* handleConvert: the loop over the characters from index i and the check
\* after it; FALSE when either sets the "Unbalanced parentheses" error.
parenthesisScan(text, i, parenthesisCount) ==
  IF i > Len(text) THEN parenthesisCount = 0
  ELSE LET count == IF text[i] = "(" THEN parenthesisCount + 1
                    ELSE IF text[i] = ")" THEN parenthesisCount - 1
                    ELSE parenthesisCount
       IN IF count < 0 THEN FALSE ELSE parenthesisScan(text, i + 1, count)

\* onChange of the input field
SetRegex(value) ==
  /\ regexField' = value
  /\ UNCHANGED error
  /\ UNCHANGED buildVars
  /\ UNCHANGED <<pc, testVars>>

\* A convert handler that leaves the shown test result in place.
Index_handleConvert_KeepsResult(regexInput) ==
  /\ automaton' = buildNFA(regexInput)
  /\ regex' = regexInput
  /\ UNCHANGED testResult

\* Index.handleConvert: buildNFA never raises, so the try block runs through.
Index_handleConvert(regexInput) ==
  /\ automaton' = buildNFA(regexInput)
  /\ regex' = regexInput
  /\ testResult' = NoResult

\* Index.handleTestString: testString never raises, so the try block runs
\* through; `input` keeps the argument of the call that set testResult.
Index_handleTestString(inp) ==
  /\ IF automaton = NullAutomaton
     THEN UNCHANGED <<testResult, input>>
     ELSE /\ testResult' = testString(automaton, inp)
          /\ input' = inp
  /\ UNCHANGED <<automaton, regex, regexField, error>>
  /\ UNCHANGED <<stateCounter, pc, processedRegex, postfix, pos, automatonStack, usedBefore>>
  /\ UNCHANGED <<idx, currentStates, path, visited, stack>>

\* RegexInput.handleConvert
RegexInput_handleConvert ==
  /\ IF Len(trim(regexField)) = 0
     THEN /\ error' = "Please enter a regular expression"
          /\ UNCHANGED <<automaton, regex, testResult>>
     ELSE IF ~parenthesisScan(regexField, 1, 0)
          THEN /\ error' = "Unbalanced parentheses in expression"
               /\ UNCHANGED <<automaton, regex, testResult>>
          ELSE /\ error' = NoError
               /\ Index_handleConvert(trim(regexField))
  /\ UNCHANGED <<regexField, stateCounter, pc, processedRegex, postfix, pos,
                 automatonStack, usedBefore>>
  /\ UNCHANGED <<input, idx, currentStates, path, visited, stack>>

\* RegexInput.handleReset with Index.handleReset as its onReset
RegexInput_handleReset ==
  /\ regexField' = <<>>
  /\ error' = NoError
  /\ automaton' = NullAutomaton
  /\ regex' = <<>>
  /\ testResult' = NoResult
  /\ UNCHANGED <<stateCounter, pc, processedRegex, postfix, pos, automatonStack, usedBefore>>
  /\ UNCHANGED <<input, idx, currentStates, path, visited, stack>>

PageNext ==
  \/ \E value \in Keystrokes(regexField) : SetRegex(value)
  \/ RegexInput_handleConvert
  \/ RegexInput_handleReset
  \/ \E inp \in PageTestInputs : Index_handleTestString(inp)

PageSpec == Init /\ [][PageNext]_vars

---------------------------------------------------------------------------
(* Properties *)

Built == pc = "idle" /\ automaton # NullAutomaton
Returned == pc = "returned"
Accepts(a, w) == testString(a, w).accepted

\* C1: for every alphabet symbol c, the automaton built from the regex c
\* accepts the string c and rejects the empty string and the string cc.
C1_SingleSymbol ==
  (/\ Returned
   /\ Len(regex) = 1
   /\ IsAlphabetSymbol(regex[1])
   /\ input \in {<<>>, regex, regex \o regex})
  => (testResult.accepted <=> input = regex)

C1_Witness ==
  /\ Returned
  /\ regex = <<"b">>
  /\ input = <<"b">>
  /\ testResult.accepted

\* C2: for every regex r (the empty regex included), testing the empty string
\* on the automaton built from r accepts iff the empty string is in the
\* language of r.
C2_EmptyString ==
  (Returned /\ input = <<>> /\ (regex = <<>> \/ WellFormed(regex)))
  => (testResult.accepted <=> (regex = <<>> \/ InLanguage(regex, <<>>)))

C2_Witness ==
  /\ Returned
  /\ input = <<>>
  /\ regex = <<"(", "a", "|", "b", ")", "*">>
  /\ testResult.accepted

\* The pieces of the test inputs, and the pairs <<r, w>> of an operand r and
\* a piece w that the automaton built from r alone accepts.
Pieces ==
  UNION {{SubSeq(w, i, j) : i \in 1..(Len(w) + 1), j \in 0..Len(w)} : w \in TestInputs}
OperandAccepts == {p \in Operands \X Pieces : Accepts(buildNFA(p[1]), p[2])}

\* The ways a regex is written as "r1 followed by r2", "r1 or r2", "r repeated".
Ungroup(g) ==
  {r \in {g, IF Len(g) >= 2 THEN SubSeq(g, 2, Len(g) - 1) ELSE g} :
     r \in Operands /\ Group(r) = g}
ConcatOperands(re) ==
  UNION {Ungroup(SubSeq(re, 1, k)) \X Ungroup(SubSeq(re, k + 1, Len(re))) :
           k \in 1..(Len(re) - 1)}
UnionOperands(re) ==
  {p \in {<<SubSeq(re, 1, k - 1), SubSeq(re, k + 1, Len(re))>> :
            k \in {m \in 1..Len(re) : re[m] = UNION_SYM}} :
     p[1] \in Operands /\ p[2] \in Operands}
StarOperands(re) ==
  IF Len(re) >= 2 /\ Top(re) = KLEENE_STAR THEN Ungroup(Pop(re)) ELSE {}

\* C3: concatenation law: the automaton built for r1 followed by r2 accepts s
\* iff s splits as s1 s2 with s1 accepted by the automaton of r1 and s2 by the
\* automaton of r2, in that order.
C3_ConcatenationLaw ==
  Returned =>
    \A p \in ConcatOperands(regex) :
      testResult.accepted <=>
        \E j \in 0..Len(input) :
          /\ <<p[1], SubSeq(input, 1, j)>> \in OperandAccepts
          /\ <<p[2], SubSeq(input, j + 1, Len(input))>> \in OperandAccepts

C3_Witness ==
  /\ Returned
  /\ regex = ConcatOf(<<"a", "*">>, <<"b">>)
  /\ input = <<"a", "a", "b">>
  /\ testResult.accepted

\* C4: union law: the automaton built for r1|r2 accepts s iff the automaton of
\* r1 or the automaton of r2 accepts s.
C4_UnionLaw ==
  Returned =>
    \A p \in UnionOperands(regex) :
      testResult.accepted <=>
        (<<p[1], input>> \in OperandAccepts \/ <<p[2], input>> \in OperandAccepts)

C4_Witness ==
  /\ Returned
  /\ regex = UnionOf(<<"a", "*">>, <<"a", "b">>)
  /\ input = <<"a", "b">>
  /\ testResult.accepted

RECURSIVE Repetition(_, _)
\* w is a concatenation of zero or more strings the automaton of r accepts
Repetition(r, w) ==
  \/ Len(w) = 0
  \/ \E j \in 1..Len(w) : /\ <<r, SubSeq(w, 1, j)>> \in OperandAccepts
                          /\ Repetition(r, SubSeq(w, j + 1, Len(w)))

AbStar == <<"(", "a", "b", ")", "*">>

\* C5: star law: the automaton built for r* accepts s iff s is a concatenation
\* of zero or more strings accepted by the automaton of r; (ab)* accepts "",
\* "ab", "abab", "ababab" and rejects "aba".
C5_StarLaw ==
  /\ Returned =>
       \A r \in StarOperands(regex) :
         testResult.accepted <=> Repetition(r, input)
  /\ (/\ Returned
      /\ regex = AbStar
      /\ input \in { <<>>, <<"a", "b">>, <<"a", "b", "a">>, <<"a", "b", "a", "b">>,
                     <<"a", "b", "a", "b", "a", "b">> })
     => (testResult.accepted <=> input # <<"a", "b", "a">>)

C5_Witness ==
  /\ Returned
  /\ regex = AbStar
  /\ input = <<"a", "b", "a", "b", "a", "b">>
  /\ testResult.accepted

InClosure == pc \in {"closure0", "closureN"}

\* C6: testString terminates with a TestResult for every built automaton and
\* every input, epsilon cycles included: every getEpsilonClosure call
\* eventually empties its work stack, and every call eventually returns.
C6_Terminates ==
  /\ InClosure ~> (Len(stack) = 0)
  /\ (pc = "closure0") ~> Returned

HasEpsilonCycle(a) ==
  \E i \in 1..Len(a.transitions) : \E j \in 1..Len(a.transitions) :
    /\ a.transitions[i].symbol = EPSILON
    /\ a.transitions[j].symbol = EPSILON
    /\ a.transitions[i].from = a.transitions[j].to
    /\ a.transitions[i].to = a.transitions[j].from

C6_Witness ==
  /\ Returned
  /\ regex = <<"(", "a", "*", ")", "*">>
  /\ HasEpsilonCycle(automaton)
  /\ input = <<"a", "a">>
  /\ testResult.accepted

\* C7: the empty regex gives the empty-string automaton: one state, start and
\* accept at once, no transitions; it accepts the empty string and rejects
\* every other input.
C7_EmptyRegex ==
  (regex = <<>> /\ automaton # NullAutomaton) =>
    /\ Len(automaton.states) = 1
    /\ automaton.states[1].id = automaton.startState
    /\ automaton.states[1].isStart
    /\ automaton.states[1].isAccept
    /\ automaton.acceptStates = <<automaton.startState>>
    /\ automaton.transitions = <<>>
    /\ Returned => (testResult.accepted <=> input = <<>>)

C7_Witness ==
  /\ Returned
  /\ regex = <<>>
  /\ input = <<"x">>
  /\ ~testResult.accepted

(* The simulator's sets by their definition: the least set closed under
   epsilon transitions, and the symbol step. *)
SetOf(seq) == {seq[k] : k \in 1..Len(seq)}
EpsilonTargets(a, S) ==
  {a.transitions[k].to : k \in {m \in 1..Len(a.transitions) :
      a.transitions[m].from \in S /\ a.transitions[m].symbol = EPSILON}}
RECURSIVE LeastClosed(_, _)
LeastClosed(a, S) ==
  IF EpsilonTargets(a, S) \subseteq S THEN S ELSE LeastClosed(a, S \cup EpsilonTargets(a, S))
SymbolTargets(a, S, c) ==
  {a.transitions[k].to : k \in {m \in 1..Len(a.transitions) :
      a.transitions[m].from \in S /\ a.transitions[m].symbol = c}}
RECURSIVE ReachedAfter(_, _)
\* the closed set after the whole of w ({} once a symbol leads nowhere)
ReachedAfter(a, w) ==
  IF Len(w) = 0 THEN LeastClosed(a, {a.startState})
  ELSE LeastClosed(a, SymbolTargets(a, ReachedAfter(a, Pop(w)), Top(w)))

\* C8: when the closed set reached on the next symbol is empty, testString
\* returns at once with accepted = false and the path accumulated before that
\* symbol: the symbol and those after it add nothing.
C8_DeadEnd ==
  [][(/\ pc = "closureN"
      /\ Len(stack) = 0
      /\ ReachedAfter(automaton, SubSeq(input, 1, idx + 1)) = {})
     => (/\ pc' = "returned"
         /\ testResult' = [accepted |-> FALSE,
                           path |-> testString(automaton, SubSeq(input, 1, idx)).path]
         /\ idx' = idx)]_vars

C8_Witness ==
  /\ Returned
  /\ regex = <<"a", "*", "b">>
  /\ input = <<"a", "c">>
  /\ idx = 1
  /\ ~testResult.accepted
  /\ testResult.path = testString(automaton, <<"a">>).path

\* C9: when every symbol was consumed, accepted is true iff the final state
\* set (the closed set after the last symbol, the closure of the start state
\* for the empty input) holds an id of acceptStates.
C9_AcceptIffIntersects ==
  (Returned /\ idx = Len(input)) =>
    /\ SetOf(currentStates) = ReachedAfter(automaton, input)
    /\ testResult.accepted <=>
         (ReachedAfter(automaton, input) \cap SetOf(automaton.acceptStates) # {})

C9_Witness ==
  /\ Returned
  /\ idx = Len(input)
  /\ regex = <<"a", "*">>
  /\ input = <<"a", "a">>
  /\ Len(currentStates) > 1
  /\ testResult.accepted

\* C10: in every returned automaton and every fragment on the construction
\* stack, exactly one state has isStart set and its id is startState, and the
\* ids in acceptStates are exactly the ids of the states with isAccept set.
FlagsMatchLists(a) ==
  /\ Cardinality({k \in 1..Len(a.states) : a.states[k].isStart}) = 1
  /\ \A k \in 1..Len(a.states) : a.states[k].isStart => a.states[k].id = a.startState
  /\ SetOf(a.acceptStates) =
       {a.states[k].id : k \in {m \in 1..Len(a.states) : a.states[m].isAccept}}

C10_FlagsMatchLists ==
  /\ \A k \in 1..Len(automatonStack) : FlagsMatchLists(automatonStack[k])
  /\ automaton # NullAutomaton => FlagsMatchLists(automaton)

C10_Witness ==
  /\ pc = "build"
  /\ Len(automatonStack) = 2
  /\ Len(automatonStack[1].states) > 2
  /\ Len(automatonStack[2].states) > 2
  /\ FlagsMatchLists(automatonStack[1])

StateIds(a) == {a.states[k].id : k \in 1..Len(a.states)}

ReferentialIntegrity(a) ==
  /\ \A k \in 1..Len(a.transitions) :
        a.transitions[k].from \in StateIds(a) /\ a.transitions[k].to \in StateIds(a)
  /\ a.startState \in StateIds(a)
  /\ \A k \in 1..Len(a.acceptStates) : a.acceptStates[k] \in StateIds(a)

\* C11: in every automaton buildNFA returns, whatever the regex, the from and
\* the to of every transition, startState and every id of acceptStates are ids
\* of states in the automaton's states list.
C11_ReferentialIntegrity == Built => ReferentialIntegrity(automaton)

C11_Witness ==
  /\ Built
  /\ regex = <<"(", "a", "|", "b", ")", "*">>
  /\ Len(automaton.states) = 8
  /\ Len(automaton.transitions) = 10
  /\ ReferentialIntegrity(automaton)

\* The numbers of the ids of an automaton, and those of everything built so
\* far in the running call.
IdNumbers(a) ==
  {a.states[k].id[2] : k \in 1..Len(a.states)}
  \cup {a.transitions[k].id[2] : k \in 1..Len(a.transitions)}
Issued ==
  UNION {IdNumbers(automatonStack[k]) : k \in 1..Len(automatonStack)}
  \cup (IF automaton = NullAutomaton THEN {} ELSE IdNumbers(automaton))

UniqueIds(a) ==
  /\ \A i \in 1..Len(a.states) : \A j \in 1..Len(a.states) :
        a.states[i].id = a.states[j].id => i = j
  /\ \A i \in 1..Len(a.transitions) : \A j \in 1..Len(a.transitions) :
        a.transitions[i].id = a.transitions[j].id => i = j

\* C12: in the automaton one buildNFA call returns no two states share an id
\* and no two transitions share an id; during the call the counter never
\* goes down, and the ids a step issues carry exactly the numbers the counter
\* passed in that step, none of them issued before.
C12_UniqueIds ==
  /\ [](Built => UniqueIds(automaton))
  /\ [][pc = "build" =>
         /\ stateCounter' >= stateCounter
         /\ Issued' \ Issued = (stateCounter + 1)..stateCounter'
         /\ Issued \subseteq 1..stateCounter]_vars

C12_Witness ==
  /\ Built
  /\ regex = <<"a", "|", "b", "*">>
  /\ stateCounter = 18
  /\ IdNumbers(automaton) = 1..18
  /\ UniqueIds(automaton)

IsAutomaton(a) ==
  /\ DOMAIN a = {"states", "transitions", "startState", "acceptStates"}
  /\ Len(a.states) >= 1
  /\ \A k \in 1..Len(a.states) :
        /\ DOMAIN a.states[k] = {"id", "label", "isStart", "isAccept"}
        /\ a.states[k].isStart \in BOOLEAN /\ a.states[k].isAccept \in BOOLEAN
  /\ \A k \in 1..Len(a.transitions) :
        DOMAIN a.transitions[k] = {"id", "from", "to", "symbol"}
  /\ Len(a.acceptStates) >= 1

BuildStep ==
  TokenKleeneStar \/ TokenConcatenation \/ TokenUnion \/ TokenSymbol \/ BuildReturn

\* C13: buildNFA raises no error on any input string (the empty string,
\* unbalanced parentheses, leading and trailing operators included): a running
\* call can always take its next step, and what it returns is an Automaton.
C13_NoError ==
  /\ pc # "raised"
  /\ pc = "build" => ENABLED BuildStep
  /\ Built => IsAutomaton(automaton)

C13_Witness ==
  /\ Built
  /\ regex = <<"*", "(">>
  /\ postfix = <<"*", "(", ".">>
  /\ Len(automaton.states) = 2

\* C14: buildNFA starts from counter zero, so what a builder returns for r is
\* the automaton a fresh builder returns for r (same ids, states, flags and
\* transitions in the same order), whatever buildNFA and testString calls it
\* served before.
C14_CounterReset ==
  /\ (pc = "build" /\ pos = 1) => stateCounter = 0
  /\ Built => automaton = buildNFA(regex)

C14_Witness ==
  /\ Built
  /\ usedBefore
  /\ regex = <<"a", "*", "b">>
  /\ automaton = buildNFA(regex)
  /\ automaton.startState = StateId(4)

\* Balanced parentheses by counting: no prefix holds more ")" than "(", and
\* the whole text holds as many of the one as of the other.
CountIn(text, c, k) == Cardinality({i \in 1..k : text[i] = c})
Balanced(text) ==
  /\ \A k \in 1..Len(text) : CountIn(text, ")", k) <= CountIn(text, "(", k)
  /\ CountIn(text, ")", Len(text)) = CountIn(text, "(", Len(text))
NonBlank(text) == \E i \in 1..Len(text) : text[i] # " "

\* C15: RegexInput calls onConvert (and so buildNFA) only with a regex that is
\* non-empty after trimming and has balanced parentheses, handing over the
\* trimmed text; in every other case it sets an error message and makes no
\* call.
C15_ValidatedBeforeConvert ==
  /\ [](automaton # NullAutomaton => (Len(regex) > 0 /\ Balanced(regex)))
  /\ [][RegexInput_handleConvert =>
         IF NonBlank(regexField) /\ Balanced(regexField)
         THEN /\ error' = NoError
              /\ regex' = trim(regexField)
              /\ automaton' = buildNFA(regex')
         ELSE /\ error' # NoError
              /\ UNCHANGED <<automaton, regex, testResult>>]_vars

C15_Witness ==
  /\ regexField = <<")", "(">>
  /\ error = "Unbalanced parentheses in expression"
  /\ regex = <<"(", "a", ")">>
  /\ automaton = buildNFA(regex)

\* Whether the marker follows the character at position i.
MarkerAfter(re, i) ==
  /\ i < Len(re)
  /\ re[i] \notin {"(", "|"}
  /\ re[i + 1] \notin {"|", "*", ")"}
RECURSIVE WithMarkers(_, _)
\* the first n characters of re, each followed by the marker where it is due
WithMarkers(re, n) ==
  IF n = 0 THEN <<>>
  ELSE WithMarkers(re, n - 1) \o <<re[n]>> \o (IF MarkerAfter(re, n) THEN <<".">> ELSE <<>>)

InCall == pc = "build" \/ Built

\* C16: addExplicitConcatenation keeps every character in order and puts the
\* marker "." after the character at position i iff there is a next character,
\* the current one is neither "(" nor "|" and the next one is none of "|", "*",
\* ")"; a regex of length 0 or 1 comes back unchanged.
C16_ExplicitConcatenation ==
  InCall =>
    /\ processedRegex = WithMarkers(regex, Len(regex))
    /\ Len(regex) <= 1 => processedRegex = regex

C16_Witness ==
  /\ Built
  /\ regex = <<"a", "*", "b", "|">>
  /\ processedRegex = <<"a", "*", ".", "b", "|">>

\* C17: the output of convertToPostfix holds no "(", whatever the input.
C17_NoParenInPostfix ==
  InCall => \A k \in 1..Len(postfix) : postfix[k] # "("

\* Concatenation-explicit infix expressions:
\*   e ::= c | e "." e | e "|" e | e "*" | "(" e ")"
TopLevel(e, c) == {k \in 1..Len(e) : e[k] = c /\ DepthBefore(e, k) = 0}

RECURSIVE WellFormedExplicit(_)
WellFormedExplicit(e) ==
  LET n == Len(e)
      us == TopLevel(e, "|")
      ds == TopLevel(e, ".")
  IN IF n = 0 THEN FALSE
     ELSE IF us # {}
          THEN /\ WellFormedExplicit(SubSeq(e, 1, Max(us) - 1))
               /\ WellFormedExplicit(SubSeq(e, Max(us) + 1, n))
     ELSE IF ds # {}
          THEN /\ WellFormedExplicit(SubSeq(e, 1, Max(ds) - 1))
               /\ WellFormedExplicit(SubSeq(e, Max(ds) + 1, n))
     ELSE IF e[n] = "*" THEN WellFormedExplicit(Pop(e))
     ELSE IF e[1] = "(" /\ e[n] = ")" THEN WellFormedExplicit(SubSeq(e, 2, n - 1))
     ELSE n = 1 /\ IsAlphabetSymbol(e[1])

RECURSIVE PostfixOf(_)
\* The postfix form of a well-formed explicit expression: union binds
\* loosest, then concatenation, then star; the binary operators group to the
\* left, so an expression splits at its last operator of the loosest kind.
PostfixOf(e) ==
  LET n == Len(e)
      us == TopLevel(e, "|")
      ds == TopLevel(e, ".")
  IN IF us # {}
     THEN PostfixOf(SubSeq(e, 1, Max(us) - 1)) \o PostfixOf(SubSeq(e, Max(us) + 1, n))
          \o <<"|">>
     ELSE IF ds # {}
     THEN PostfixOf(SubSeq(e, 1, Max(ds) - 1)) \o PostfixOf(SubSeq(e, Max(ds) + 1, n))
          \o <<".">>
     ELSE IF e[n] = "*" THEN PostfixOf(Pop(e)) \o <<"*">>
     ELSE IF e[1] = "(" THEN PostfixOf(SubSeq(e, 2, n - 1))
     ELSE e

RECURSIVE SymbolsOf(_)
SymbolsOf(e) ==
  IF Len(e) = 0 THEN <<>>
  ELSE SymbolsOf(Pop(e)) \o (IF IsAlphabetSymbol(Top(e)) THEN <<Top(e)>> ELSE <<>>)

\* C18: on a well-formed concatenation-explicit expression convertToPostfix
\* returns the postfix form of the expression read with star binding tighter
\* than concatenation, concatenation tighter than union and the binary
\* operators grouping to the left; the alphabet symbols keep their order.
C18_PostfixForm ==
  (InCall /\ WellFormedExplicit(processedRegex)) =>
    /\ postfix = PostfixOf(processedRegex)
    /\ SymbolsOf(postfix) = SymbolsOf(processedRegex)

C18_Witness ==
  /\ Built
  /\ processedRegex = <<"a", "|", "b", ".", "a", "*", "|", "b">>
  /\ postfix = <<"a", "b", "a", "*", ".", "|", "b", "|">>

AtEnd == pc = "build" /\ pos > Len(postfix)
PassesUpstreamCheck(re) == NonBlank(re) /\ Balanced(re)

\* C19: for a regex that passes the upstream check (non-empty, balanced
\* parentheses) the fragment stack holds at most one fragment when the postfix
\* string is used up, and what is returned is that fragment, or the
\* empty-string automaton when there is none: no fragment is dropped.
C19_SoleFragment ==
  /\ []((AtEnd /\ PassesUpstreamCheck(regex)) => Len(automatonStack) <= 1)
  /\ [][(AtEnd /\ PassesUpstreamCheck(regex)) =>
         automaton' = IF Len(automatonStack) = 1 THEN automatonStack[1]
                      ELSE createEmptyNFA(stateCounter).nfa]_vars

C19_Witness ==
  /\ AtEnd
  /\ regex = <<"*", "a", "|", "b">>
  /\ postfix = <<"*", "a", ".", "b", "|">>
  /\ Len(automatonStack) = 1
  /\ Len(automatonStack[1].states) = 6

Edge(t) == <<t.from, t.to, t.symbol>>

\* r is the star of a: two fresh states around a's states and transitions.
IsStarOf(a, r) ==
  LET ns == r.startState
      na == r.acceptStates[1]
      old == {k \in 1..Len(r.states) : r.states[k].id \in StateIds(a)}
      added == {k \in 1..Len(r.transitions) : r.transitions[k] \notin SetOf(a.transitions)}
  IN /\ Len(r.acceptStates) = 1
     /\ ns # na /\ ns \notin StateIds(a) /\ na \notin StateIds(a)
     /\ Len(r.states) = Len(a.states) + 2
     /\ {r.states[k] : k \in old} = {WithFlags(a.states[k], FALSE, FALSE) : k \in 1..Len(a.states)}
     /\ \E i \in 1..Len(r.states) : \E j \in 1..Len(r.states) :
          /\ r.states[i].id = ns /\ r.states[i].isStart /\ ~r.states[i].isAccept
          /\ r.states[j].id = na /\ ~r.states[j].isStart /\ r.states[j].isAccept
     /\ SetOf(a.transitions) \subseteq SetOf(r.transitions)
     /\ Len(r.transitions) = Len(a.transitions) + 2 + 2 * Len(a.acceptStates)
     /\ Cardinality(added) = 2 + 2 * Len(a.acceptStates)
     /\ {Edge(r.transitions[k]) : k \in added} =
          {<<ns, a.startState, EPSILON>>, <<ns, na, EPSILON>>}
          \cup {<<a.acceptStates[k], a.startState, EPSILON>> : k \in 1..Len(a.acceptStates)}
          \cup {<<a.acceptStates[k], na, EPSILON>> : k \in 1..Len(a.acceptStates)}

\* C20: applyKleeneStar(A) gives two fresh states (the new start, the new
\* accept) and A's states with both flags cleared, keeps A's transitions as
\* they are and adds exactly the epsilon transitions new start -> A.start,
\* new start -> new accept and, for every accept state q of A, q -> A.start and
\* q -> new accept; its startState is the new start and its acceptStates the
\* new accept alone.
C20_KleeneStarStructure ==
  [][(AtToken /\ postfix[pos] = "*" /\ Len(automatonStack) > 0) =>
       /\ Len(automatonStack') = Len(automatonStack)
       /\ IsStarOf(Top(automatonStack), Top(automatonStack'))]_vars

C20_Witness ==
  /\ AtEnd
  /\ regex = <<"(", "a", "|", "b", ")", "*">>
  /\ Len(automatonStack) = 1
  /\ automatonStack[1].startState = StateId(13)
  /\ automatonStack[1].acceptStates = <<StateId(14)>>
  /\ Len(automatonStack[1].states) = 8

\* The two fragments a binary operator pops: the left one lies below the right.
LeftOperand == automatonStack[Len(automatonStack) - 1]
RightOperand == automatonStack[Len(automatonStack)]
AtBinary(token) == AtToken /\ postfix[pos] = token /\ Len(automatonStack) >= 2

\* r is the concatenation of a and b.
IsConcatOf(a, b, r) ==
  LET added == {k \in 1..Len(r.transitions) :
                  r.transitions[k] \notin (SetOf(a.transitions) \cup SetOf(b.transitions))}
  IN /\ Len(r.states) = Len(a.states) + Len(b.states)
     /\ \A k \in 1..Len(a.states) : r.states[k] = [a.states[k] EXCEPT !.isAccept = FALSE]
     /\ \A k \in 1..Len(b.states) :
          r.states[Len(a.states) + k] = [b.states[k] EXCEPT !.isStart = FALSE]
     /\ StateIds(r) = StateIds(a) \cup StateIds(b)
     /\ SetOf(a.transitions) \cup SetOf(b.transitions) \subseteq SetOf(r.transitions)
     /\ Len(r.transitions) = Len(a.transitions) + Len(b.transitions) + Len(a.acceptStates)
     /\ Cardinality(added) = Len(a.acceptStates)
     /\ {Edge(r.transitions[k]) : k \in added} =
          {<<a.acceptStates[k], b.startState, EPSILON>> : k \in 1..Len(a.acceptStates)}
     /\ r.startState = a.startState
     /\ r.acceptStates = b.acceptStates

\* C21: concatenate(A, B) creates no state: the result holds A's states with
\* isAccept cleared followed by B's states with isStart cleared, every
\* transition of A and of B as it was, and exactly one epsilon transition from
\* each accept state of A to B.start; its startState is A.start and its
\* acceptStates are B's.
C21_ConcatenateStructure ==
  [][AtBinary(".") =>
       /\ Len(automatonStack') = Len(automatonStack) - 1
       /\ IsConcatOf(LeftOperand, RightOperand, Top(automatonStack'))]_vars

C21_Witness ==
  /\ AtEnd
  /\ regex = <<"a", "*", "b">>
  /\ Len(automatonStack) = 1
  /\ automatonStack[1].startState = StateId(4)
  /\ automatonStack[1].acceptStates = <<StateId(11)>>
  /\ Len(automatonStack[1].states) = 6
  /\ Len(automatonStack[1].transitions) = 7

\* r is the union of a and b: two fresh states around the states and the
\* transitions of both.
IsUnionOf(a, b, r) ==
  LET ns == r.startState
      na == r.acceptStates[1]
      operandIds == StateIds(a) \cup StateIds(b)
      old == {k \in 1..Len(r.states) : r.states[k].id \in operandIds}
      added == {k \in 1..Len(r.transitions) :
                  r.transitions[k] \notin (SetOf(a.transitions) \cup SetOf(b.transitions))}
  IN /\ Len(r.acceptStates) = 1
     /\ ns # na /\ ns \notin operandIds /\ na \notin operandIds
     /\ Len(r.states) = Len(a.states) + Len(b.states) + 2
     /\ {r.states[k] : k \in old} =
          {[a.states[k] EXCEPT !.isStart = FALSE, !.isAccept = FALSE] : k \in 1..Len(a.states)}
          \cup {[b.states[k] EXCEPT !.isStart = FALSE, !.isAccept = FALSE] :
                  k \in 1..Len(b.states)}
     /\ Cardinality(old) = Len(a.states) + Len(b.states)
     /\ \E i \in 1..Len(r.states) : \E j \in 1..Len(r.states) :
          /\ r.states[i].id = ns /\ r.states[i].isStart /\ ~r.states[i].isAccept
          /\ r.states[j].id = na /\ ~r.states[j].isStart /\ r.states[j].isAccept
     /\ SetOf(a.transitions) \cup SetOf(b.transitions) \subseteq SetOf(r.transitions)
     /\ Len(r.transitions) =
          Len(a.transitions) + Len(b.transitions) + 2
          + Len(a.acceptStates) + Len(b.acceptStates)
     /\ Cardinality(added) = 2 + Len(a.acceptStates) + Len(b.acceptStates)
     /\ {Edge(r.transitions[k]) : k \in added} =
          {<<ns, a.startState, EPSILON>>, <<ns, b.startState, EPSILON>>}
          \cup {<<a.acceptStates[k], na, EPSILON>> : k \in 1..Len(a.acceptStates)}
          \cup {<<b.acceptStates[k], na, EPSILON>> : k \in 1..Len(b.acceptStates)}

\* C23: union(A, B) gives two fresh states (the new start, the new accept)
\* and the states of A and of B with both flags cleared, keeps the transitions
\* of A and B as they are and adds exactly the epsilon transitions new start ->
\* A.start, new start -> B.start and one from every accept state of A and of B
\* to the new accept; its startState is the new start and its acceptStates the
\* new accept alone.
C23_UnionStructure ==
  [][AtBinary("|") =>
       /\ Len(automatonStack') = Len(automatonStack) - 1
       /\ IsUnionOf(LeftOperand, RightOperand, Top(automatonStack'))]_vars

C23_Witness ==
  /\ AtEnd
  /\ regex = <<"a", "b", "|", "b">>
  /\ Len(automatonStack) = 1
  /\ automatonStack[1].startState = StateId(11)
  /\ automatonStack[1].acceptStates = <<StateId(12)>>
  /\ Len(automatonStack[1].states) = 8
  /\ Len(automatonStack[1].transitions) = 8

\* The right operand's start state is one of its accept states.
RightStartAccepting == RightOperand.startState \in SetOf(RightOperand.acceptStates)

\* r accepts exactly the strings s1 s2 with s1 accepted by a and s2 by b
\* (over the test inputs).
ConcatenationLanguage(a, b, r) ==
  \A w \in TestInputs :
    Accepts(r, w) <=>
      \E j \in 0..Len(w) : /\ Accepts(a, SubSeq(w, 1, j))
                            /\ Accepts(b, SubSeq(w, j + 1, Len(w)))

AcceptingIn(r, q) ==
  \/ q \in SetOf(r.acceptStates)
  \/ \E k \in 1..Len(r.states) : r.states[k].id = q /\ r.states[k].isAccept

LacksOperands ==
  /\ AtToken
  /\ \/ postfix[pos] = "*" /\ Len(automatonStack) = 0
     \/ postfix[pos] \in {".", "|"} /\ Len(automatonStack) < 2

\* C26: an operator token that lacks operands ("*" on an empty fragment
\* stack, "." or "|" on fewer than two fragments) is skipped silently: the
\* fragment stack and the id counter stay as they are, no error is signalled
\* and the loop goes on with the next token.
C26_OperatorSkipped ==
  [][LacksOperands =>
       /\ UNCHANGED <<automatonStack, stateCounter>>
       /\ pc' = "build"
       /\ pos' = pos + 1]_vars

C26_Witness ==
  /\ AtEnd
  /\ postfix = <<"*", "a", ".">>
  /\ Len(automatonStack) = 1
  /\ Len(automatonStack[1].states) = 2
  /\ stateCounter = 3

StartAccepting(a) == a.startState \in SetOf(a.acceptStates)

\* C27: every fragment on the construction stack has exactly one accept
\* state, which is not its start state, so concatenate never gets a right
\* operand whose start is accepting; a returned automaton has its start state
\* as accept state only when it is the one-state empty-string automaton,
\* made at the end on an empty stack.
C27_OneAcceptNotStart ==
  /\ \A k \in 1..Len(automatonStack) :
        /\ Len(automatonStack[k].acceptStates) = 1
        /\ ~StartAccepting(automatonStack[k])
  /\ AtBinary(".") => ~RightStartAccepting
  /\ (AtEnd /\ Len(automatonStack) = 0) => stateCounter = 0
  /\ Built => (StartAccepting(automaton) <=> automaton = createEmptyNFA(0).nfa)

C27_Witness ==
  /\ AtBinary(".")
  /\ regex = <<"a", "*", "b", "*">>
  /\ Len(LeftOperand.states) = 4
  /\ Len(RightOperand.states) = 4
  /\ RightOperand.acceptStates = <<StateId(14)>>

RECURSIVE TotalStates(_)
\* the number of states of all fragments of a stack
TotalStates(fs) == IF Len(fs) = 0 THEN 0 ELSE TotalStates(Pop(fs)) + Len(Top(fs).states)

OccurrencesOf(re, c) == Cardinality({k \in 1..Len(re) : re[k] = c})
SymbolOccurrences(re) == Cardinality({k \in 1..Len(re) : IsAlphabetSymbol(re[k])})

\* C30: for a well-formed regex the returned automaton has exactly
\* 2 x (alphabet-symbol occurrences + stars + unions) states, all different:
\* every symbol, star and union step adds two states and a concatenation step
\* adds none.
C30_StateCount ==
  /\ []((Built /\ WellFormed(regex)) =>
          /\ Len(automaton.states) =
               2 * (SymbolOccurrences(regex) + OccurrencesOf(regex, "*")
                    + OccurrencesOf(regex, "|"))
          /\ Cardinality(StateIds(automaton)) = Len(automaton.states))
  /\ [][(AtToken /\ WellFormed(regex)) =>
         TotalStates(automatonStack') =
           TotalStates(automatonStack) + (IF postfix[pos] = "." THEN 0 ELSE 2)]_vars

C30_Witness ==
  /\ Built
  /\ regex = <<"(", "a", "|", "b", ")", "*", "a", "b", "b">>
  /\ Len(automaton.states) = 14

NoDuplicates(seq) == Cardinality(SetOf(seq)) = Len(seq)

\* The argument of the getEpsilonClosure call in progress: [startState] for
\* the call of testString, the symbol targets for the call of getNextStates.
ClosureArgument ==
  IF pc = "closure0" THEN <<automaton.startState>>
  ELSE symbolTargets(currentStates, input[idx + 1], automaton, 1, <<>>)

\* C24: getEpsilonClosure(S, automaton) returns exactly the smallest set that
\* contains S and is closed under epsilon transitions (symbol transitions are
\* not followed), lists no id twice, and expands each state at most once: a
\* state is pushed only when it is new to visited, so none is popped twice.
C24_LeastClosedSet ==
  /\ [](InClosure =>
          /\ NoDuplicates(visited)
          /\ NoDuplicates(stack)
          /\ SetOf(stack) \subseteq SetOf(visited)
          /\ Len(stack) = 0 =>
                /\ SetOf(visited) = LeastClosed(automaton, SetOf(ClosureArgument))
                /\ visited = getEpsilonClosure(ClosureArgument, automaton))
  /\ [][(InClosure /\ Len(stack) > 0) =>
         /\ SetOf(stack') \cap SetOf(visited) \subseteq SetOf(Pop(stack))
         /\ Top(stack) \notin SetOf(stack')
         /\ SetOf(visited') = SetOf(visited) \cup SetOf(stack')]_vars

C24_Witness ==
  /\ pc = "closureN"
  /\ Len(stack) = 0
  /\ regex = <<"(", "a", "|", "b", ")", "*">>
  /\ input[idx + 1] = "a"
  /\ Len(visited) = 6
  /\ ClosureArgument = <<StateId(2)>>
  /\ SymbolTargets(automaton, SetOf(visited), "b") # {}

RECURSIVE IsBlocks(_, _, _, _, _)
\* pth is the closed sets reached after i, i+1, .., m symbols of w, one block
\* each, every block without a repeated state
IsBlocks(a, w, i, m, pth) ==
  IF i > m THEN pth = <<>>
  ELSE LET S == ReachedAfter(a, SubSeq(w, 1, i))
           n == Cardinality(S)
       IN /\ n >= 1
          /\ Len(pth) >= n
          /\ SetOf(SubSeq(pth, 1, n)) = S
          /\ IsBlocks(a, w, i + 1, m, SubSeq(pth, n + 1, Len(pth)))

\* C25: the path is the epsilon closure of the start state followed, for each
\* symbol consumed without dead end, in input order, by the whole closed set
\* reached on it; no state twice within a block, though a later block may hold
\* it again; a run that consumes all n symbols returns at least n+1 entries.
C25_PathBlocks ==
  /\ pc \in {"loop", "closureN", "returned"} => IsBlocks(automaton, input, 0, idx, path)
  /\ Returned =>
        /\ testResult.path = path
        /\ SubSeq(path, 1, Len(getEpsilonClosure(<<automaton.startState>>, automaton)))
             = getEpsilonClosure(<<automaton.startState>>, automaton)
        /\ idx = Len(input) => Len(testResult.path) >= Len(input) + 1

C25_Witness ==
  /\ Returned
  /\ regex = <<"(", "a", "b", ")", "*">>
  /\ input = <<"a", "b", "a", "b">>
  /\ idx = 4
  /\ ~NoDuplicates(testResult.path)
  /\ Len(testResult.path) >= 5

PrefixOf(p, q) == Len(p) <= Len(q) /\ SubSeq(q, 1, Len(p)) = p

\* C28: for s a prefix of the input s+t, testString(automaton, s).path is a
\* prefix of testString(automaton, s+t).path; and when the run on s stops at a
\* dead end, the run on s+t returns that same path with accepted = false.
C28_PathPrefix ==
  Returned =>
    \A k \in 0..Len(input) :
      LET s == SubSeq(input, 1, k)
          onPrefix == testString(automaton, s)
      IN /\ PrefixOf(onPrefix.path, testResult.path)
         /\ ReachedAfter(automaton, s) = {} =>
              testResult = [accepted |-> FALSE, path |-> onPrefix.path]

C28_Witness ==
  /\ Returned
  /\ regex = <<"a">>
  /\ input = <<"b", "a">>
  /\ ReachedAfter(automaton, <<"b">>) = {}
  /\ testResult = [accepted |-> FALSE, path |-> testString(automaton, <<"b">>).path]
  /\ Len(testResult.path) = 1

\* C29: in the page state a test result is held only together with an
\* automaton, and it is the result of testString on that automaton (for the
\* string last tested); a successful convert and a reset clear the test
\* result, and a test-string event while no automaton is held changes nothing.
C29_ResultOfHeldAutomaton ==
  /\ [](testResult # NoResult =>
          /\ automaton # NullAutomaton
          /\ testResult = testString(automaton, input))
  /\ [][(RegexInput_handleConvert /\ error' = NoError) => testResult' = NoResult]_vars
  /\ [][RegexInput_handleReset => testResult' = NoResult]_vars
  /\ [][automaton = NullAutomaton =>
         \A inp \in PageTestInputs : ~Index_handleTestString(inp)]_vars

C29_Witness ==
  /\ regex = <<"a", "a">>
  /\ automaton = buildNFA(regex)
  /\ input = <<"a", "a">>
  /\ testResult = testString(automaton, input)
  /\ testResult.accepted
  /\ regexField = <<"a">>

====
